---- MODULE Spec2Model ----
(***************************************************************************)
(* FuzzyVariableVisualizer of skfuzzy/control/visualization.py.            *)
(*                                                                         *)
(* The visualizer owns one drawing surface (self.ax) and a label -> curve  *)
(* cache (self.plots).  Every view() call redraws the membership curves,   *)
(* overlays the cut membership functions as filled regions and, when a     *)
(* crisp value is available, draws a vertical marker.                      *)
(*                                                                         *)
(* Units.  Universe positions are counted in halves (the universe          *)
(* 0,1,2,3,4 is <<0,2,4,6,8>> and the crisp value 2.5 is 5); membership    *)
(* degrees are counted in 1/200 (0.05 is 10, 0.1 is 20, 0.3 is 60 and 1.0  *)
(* is 200), so that every interpolation of the model is exact.             *)
(***************************************************************************)
EXTENDS Integers, Sequences, FiniteSets, TLC

VARIABLES
    arg,             \* the fuzzy_var argument the visualizer was built from
    fuzzy_var,       \* self.fuzzy_var
    term,            \* self.term
    plots,           \* self.plots : label -> handle of a line of ax_lines
    ax_lines,        \* the lines of self.ax, in drawing order
    ax_collections,  \* the filled regions of self.ax
    calls,           \* number of view() calls made so far
    last,            \* what the most recent view() call was given and drew
    prev             \* the same for the call before it

vars == <<arg, fuzzy_var, term, plots, ax_lines, ax_collections, calls, last, prev>>

\* Bound of the model: the number of view() calls on one visualizer.
MaxCalls == 2

\* Python's None and a present value.
None == <<>>
Some(v) == <<v>>

(***************************************************************************)
(* The fuzzy variable.                                                     *)
(***************************************************************************)
Universe == <<0, 2, 4, 6, 8>>

Idx == DOMAIN Universe

\* np.zeros_like(self.fuzzy_var.universe)
zeros == [i \in Idx |-> 0]

\* fuzzy_var.terms: an ordered mapping label -> Term, in insertion order.
Terms ==
    << [label |-> "A", mf |-> <<200, 100, 0, 0, 0>>],
       [label |-> "B", mf |-> <<0, 100, 200, 100, 0>>],
       [label |-> "C", mf |-> <<0, 0, 0, 100, 200>>] >>

\* A FuzzyVariable; hasInput / hasOutput say whether the object carries an
\* `input` / an `output` attribute (what hasattr probes).
FuzzyVariable(hasInput, hasOutput) ==
    [kind |-> "FuzzyVariable", label |-> "v", universe |-> Universe,
     terms |-> Terms, hasInput |-> hasInput, hasOutput |-> hasOutput]

FuzzyVariables == {FuzzyVariable(i, o) : i \in BOOLEAN, o \in BOOLEAN}

\* The Term objects of a variable: a label and the parent variable.
TermsOf(v) ==
    {[kind |-> "Term", label |-> v.terms[i].label, parent_variable |-> v] :
        i \in DOMAIN v.terms}

TermLabels(v) == {v.terms[i].label : i \in DOMAIN v.terms}

(***************************************************************************)
(* Simulations.  A simulation carries, for the viewed variable, what       *)
(* CrispValueCalculator.find_memberships derives (the aggregate output     *)
(* curve and the cut curves by label) and the variable's assigned input    *)
(* and computed output values.                                             *)
(***************************************************************************)
EmptyCuts == [l \in {} |-> zeros]

\* The cut of a term at an activation level: the curve truncated at it.
Cut(level, mf) == [i \in Idx |-> IF mf[i] < level THEN mf[i] ELSE level]

CutResults ==
    { EmptyCuts,
      "A" :> zeros,
      ("A" :> Cut(60, Terms[1].mf)) @@ ("C" :> Cut(200, Terms[3].mf)) }

\* Cut results that name a label "Z" the variable has no term for.
ForeignCutResults ==
    { "Z" :> Cut(60, Terms[2].mf),
      ("B" :> Cut(60, Terms[2].mf)) @@ ("Z" :> Cut(60, Terms[2].mf)) }

AggregateCurves ==
    { zeros,
      <<0, 0, 10, 10, 0>>,
      <<0, 0, 20, 10, 0>>,
      <<0, 0, 60, 60, 0>> }

\* <<assigned input value, computed output value>>
CrispPairs == { <<None, None>>, <<Some(5), Some(4)>>, <<None, Some(4)>> }

Simulation(cuts, agg, pair) ==
    [cut_mfs |-> cuts, output_mf |-> agg, input |-> pair[1], output |-> pair[2]]

Sims ==
    {Simulation(c, a, p) : c \in CutResults, a \in AggregateCurves, p \in CrispPairs}

ForeignSims ==
    {Simulation(c, a, p) :
        c \in ForeignCutResults, a \in AggregateCurves, p \in CrispPairs}

\* ControlSystemSimulation(ControlSystem()): nothing activated, nothing assigned.
EmptySimulation == Simulation(EmptyCuts, zeros, <<None, None>>)

\* CrispValueCalculator(var, sim).find_memberships()
find_memberships(var, sim) == <<sim.output_mf, sim.cut_mfs>>

\* interp_membership(x, xmf, xx): piecewise-linear interpolation of the curve
\* xmf over x at xx, clamped to the nearest endpoint outside the universe.
interp_membership(x, xmf, xx) ==
    IF xx <= x[1] THEN xmf[1]
    ELSE IF xx >= x[Len(x)] THEN xmf[Len(x)]
    ELSE LET i == CHOOSE j \in 1..(Len(x) - 1) : x[j] <= xx /\ xx < x[j + 1]
         IN  xmf[i] + ((xmf[i + 1] - xmf[i]) * (xx - x[i])) \div (x[i + 1] - x[i])

(***************************************************************************)
(* __init__                                                                *)
(***************************************************************************)
CtorArgs == FuzzyVariables \cup UNION {TermsOf(v) : v \in FuzzyVariables}

Init ==
    /\ arg \in CtorArgs
    /\ term = IF arg.kind = "Term" THEN Some(arg.label) ELSE None
    /\ fuzzy_var = IF arg.kind = "Term" THEN arg.parent_variable ELSE arg
    /\ plots = [l \in {} |-> 0]
    /\ ax_lines = <<>>
    /\ ax_collections = {}
    /\ calls = 0
    /\ last = [sim |-> None, lines |-> <<>>, fills |-> {}, raised |-> "none"]
    /\ prev = [sim |-> None, lines |-> <<>>, fills |-> {}, raised |-> "none"]

(***************************************************************************)
(* _init_plot                                                              *)
(***************************************************************************)
\* Line widths of an ordinary and of the active membership function.
LwPlain == 1
LwBold == 3

\* Variant: every curve drawn plain, the active term never bold.
LineWidthNeverBold(key) == LwPlain

\* linewidth of the curve of `key`
LineWidth(key) == IF term = Some(key) THEN LwBold ELSE LwPlain

\* The curves _init_plot draws, in drawing order; the n-th line of the
\* surface takes the n-th colour of the surface's colour cycle.
InitPlotLines(base) ==
    [i \in DOMAIN fuzzy_var.terms |->
        [label |-> fuzzy_var.terms[i].label,
         xs |-> fuzzy_var.universe,
         ys |-> fuzzy_var.terms[i].mf,
         lw |-> LineWidth(fuzzy_var.terms[i].label),
         color |-> <<"cycle", base + i>>]]

\* Variant: a label already cached keeps its first curve.
InitPlotCacheKeepFirst(base) ==
    [l \in DOMAIN plots \cup TermLabels(fuzzy_var) |->
        IF l \in DOMAIN plots
        THEN plots[l]
        ELSE base + (CHOOSE i \in DOMAIN fuzzy_var.terms : fuzzy_var.terms[i].label = l)]

\* self.plots[key] = self.ax.plot(...): the cache after _init_plot.
InitPlotCache(base) ==
    [l \in DOMAIN plots \cup TermLabels(fuzzy_var) |->
        IF l \in TermLabels(fuzzy_var)
        THEN base + (CHOOSE i \in DOMAIN fuzzy_var.terms : fuzzy_var.terms[i].label = l)
        ELSE plots[l]]

(***************************************************************************)
(* view                                                                    *)
(***************************************************************************)
\* Variant: a cut for a label without a curve suppresses every overlay.
CutPlotsAllOrNothing(cache, lines, cut_mfs) ==
    IF DOMAIN cut_mfs \subseteq DOMAIN cache
    THEN {[label |-> l, x |-> fuzzy_var.universe, y1 |-> zeros, y2 |-> cut_mfs[l],
           facecolor |-> lines[cache[l]].color] :
             l \in {k \in DOMAIN cache : k \in DOMAIN cut_mfs}}
    ELSE {}

\* Variant: every overlay takes the colour of the curve drawn last.
CutPlotsLastColor(cache, lines, cut_mfs) ==
    {[label |-> l, x |-> fuzzy_var.universe, y1 |-> zeros, y2 |-> cut_mfs[l],
      facecolor |-> lines[Len(lines)].color] :
        l \in {k \in DOMAIN cache : k \in DOMAIN cut_mfs}}

\* Variant: the overlays are made from the cache as it was before _init_plot.
CutPlotsStaleCache(cache, lines, cut_mfs) ==
    {[label |-> l, x |-> fuzzy_var.universe, y1 |-> zeros, y2 |-> cut_mfs[l],
      facecolor |-> lines[plots[l]].color] :
        l \in {k \in DOMAIN plots : k \in DOMAIN cut_mfs}}

\* The filled overlays: one per cached label that has a cut.
CutPlots(cache, lines, cut_mfs) ==
    {[label |-> l,
      x |-> fuzzy_var.universe,
      y1 |-> zeros,
      y2 |-> cut_mfs[l],
      facecolor |-> lines[cache[l]].color] :
        l \in {k \in DOMAIN cache : k \in DOMAIN cut_mfs}}

\* Variant: the emptiness of the cut result is not looked at.
CrispAvailableNoLen(output_mf, cut_mfs) ==
    ~ (\A i \in DOMAIN output_mf : output_mf[i] = 0)

\* Variant: the aggregate curve is not looked at.
CrispAvailableNoZeroTest(output_mf, cut_mfs) ==
    Cardinality(DOMAIN cut_mfs) > 0

\* len(cut_mfs) > 0 and not all(output_mf == 0)
CrispAvailable(output_mf, cut_mfs) ==
    /\ Cardinality(DOMAIN cut_mfs) > 0
    /\ ~ (\A i \in DOMAIN output_mf : output_mf[i] = 0)

\* Variant: the output role is probed before the input role.
CrispValueOutputFirst(sim) ==
    IF fuzzy_var.hasOutput THEN sim.output
    ELSE IF fuzzy_var.hasInput THEN sim.input
    ELSE None

\* The crisp value by the variable's role.
CrispValue(sim) ==
    IF fuzzy_var.hasInput THEN sim.input
    ELSE IF fuzzy_var.hasOutput THEN sim.output
    ELSE None

\* Heights below the threshold are replaced by the full height.
Threshold == 20
FullHeight == 200

\* Variant: a height equal to the threshold is replaced too.
MarkerHeightInclusive(y) == IF y <= Threshold THEN FullHeight ELSE y

MarkerHeight(y) == IF y < Threshold THEN FullHeight ELSE y

\* The crisp-value marker: no line or one.
CrispLines(sim, output_mf, cut_mfs) ==
    IF CrispAvailable(output_mf, cut_mfs) /\ CrispValue(sim) # None
    THEN LET crisp_value == CrispValue(sim)[1]
             y == interp_membership(fuzzy_var.universe, output_mf, crisp_value)
         IN  << [label |-> "crisp value",
                 xs |-> <<crisp_value, crisp_value>>,
                 ys |-> <<0, MarkerHeight(y)>>,
                 lw |-> LwBold,
                 color |-> <<"k", 0>>] >>
    ELSE <<>>

View(simArg) ==
    /\ calls < MaxCalls
    /\ LET sim == IF simArg = None THEN EmptySimulation ELSE simArg[1]
           base == Len(ax_lines)
           curves == InitPlotLines(base)
           cache == InitPlotCache(base)
           mfs == find_memberships(fuzzy_var, sim)
           output_mf == mfs[1]
           cut_mfs == mfs[2]
           cut_plots == CutPlots(cache, ax_lines \o curves, cut_mfs)
           marker == CrispLines(sim, output_mf, cut_mfs)
       IN  /\ plots' = cache
           /\ ax_lines' = ax_lines \o curves \o marker
           /\ ax_collections' = ax_collections \cup cut_plots
           /\ last' = [sim |-> simArg, lines |-> curves \o marker,
                       fills |-> cut_plots, raised |-> "none"]
    /\ prev' = last
    /\ calls' = calls + 1
    /\ UNCHANGED <<arg, fuzzy_var, term>>

\* view() without a simulation
ViewDefault == View(None)

\* view(sim) with a simulation of the viewed variable's control system
ViewSim == \E s \in Sims : View(Some(s))

\* view(sim) with a simulation whose cut result names a foreign label
ViewForeign == \E s \in ForeignSims : View(Some(s))

Next == ViewDefault \/ ViewSim

Spec == Init /\ [][Next]_vars

NextForeign == ViewDefault \/ ViewForeign

SpecForeign == Init /\ [][NextForeign]_vars

(***************************************************************************)
(* What the most recent call was given and what it drew.                   *)
(***************************************************************************)
LastSim == IF last.sim = None THEN EmptySimulation ELSE last.sim[1]

IsMarker(ln) == ln.label = "crisp value"
IsCurve(ln) == ln.label # "crisp value"

Markers(c) == SelectSeq(c.lines, IsMarker)
Curves(c) == SelectSeq(c.lines, IsCurve)

FillLabels(c) == {f.label : f \in c.fills}

\* The value the simulation holds for the role of the variable.
RoleValue ==
    IF fuzzy_var.hasInput THEN LastSim.input
    ELSE IF fuzzy_var.hasOutput THEN LastSim.output
    ELSE None

AggregateAllZero == \A i \in Idx : LastSim.output_mf[i] = 0

ForeignLabels == DOMAIN LastSim.cut_mfs \ TermLabels(fuzzy_var)

\* A call's drawing without the identities of the objects drawn.
CurveDescr(ln) == [label |-> ln.label, xs |-> ln.xs, ys |-> ln.ys, lw |-> ln.lw]
FillDescr(f) == [label |-> f.label, x |-> f.x, y1 |-> f.y1, y2 |-> f.y2]
Descr(c) ==
    [lines |-> [i \in DOMAIN c.lines |-> CurveDescr(c.lines[i])],
     fills |-> {FillDescr(f) : f \in c.fills}]

(***************************************************************************)
(* C1.  Visibility floor: the height of an emitted marker is the           *)
(* aggregate curve interpolated at the crisp value, except that a height   *)
(* below 0.1 (20) is drawn as exactly 1.0 (200); no marker has a height    *)
(* in [0, 0.1).                                                            *)
(***************************************************************************)
C1_VisibilityFloor ==
    \A k \in DOMAIN Markers(last) :
        LET m == Markers(last)[k]
            y == interp_membership(Universe, LastSim.output_mf, m.xs[1])
        IN  /\ y < 20 => m.ys[2] = 200
            /\ y >= 20 => m.ys[2] = y
            /\ ~ (m.ys[2] >= 0 /\ m.ys[2] < 20)

\* Both cases in one run: a call whose marker (interpolated 0.075) was raised
\* to 1.0, after a call whose marker (interpolated 0.3) was left alone.
C1_Witness ==
    /\ calls = 2
    /\ Len(Markers(last)) = 1 /\ Len(Markers(prev)) = 1
    /\ interp_membership(Universe, LastSim.output_mf, Markers(last)[1].xs[1]) = 15
    /\ Markers(last)[1].ys[2] = 200
    /\ Markers(prev)[1].ys[2] = 60

(***************************************************************************)
(* C2.  With an empty cut result a call draws no fill and no marker and    *)
(* raises nothing, whatever the crisp value.                               *)
(***************************************************************************)
C2_EmptyCutNothingDrawn ==
    (calls >= 1 /\ DOMAIN LastSim.cut_mfs = {}) =>
        /\ last.fills = {}
        /\ Markers(last) = <<>>
        /\ last.raised = "none"

\* An empty cut result together with a crisp value and a non-zero aggregate.
C2_Witness ==
    /\ calls >= 1
    /\ last.sim # None
    /\ DOMAIN LastSim.cut_mfs = {}
    /\ RoleValue # None
    /\ ~ AggregateAllZero
    /\ Markers(last) = <<>>

(***************************************************************************)
(* C3.  As claimed: an all-zero aggregate curve suppresses the fills as    *)
(* well as the marker.                                                     *)
(***************************************************************************)
C3_Original ==
    (calls >= 1 /\ AggregateAllZero) =>
        (last.fills = {} /\ Markers(last) = <<>>)

\* C3 as amended: an all-zero aggregate curve suppresses the marker only;
\* every term label with a cut still gets its fill.
C3_ZeroAggregateNoMarker ==
    (calls >= 1 /\ AggregateAllZero) =>
        /\ Markers(last) = <<>>
        /\ FillLabels(last) = DOMAIN LastSim.cut_mfs \cap TermLabels(fuzzy_var)

\* An all-zero aggregate with a cut entry and a crisp value at hand.
C3_Witness ==
    /\ calls >= 1
    /\ AggregateAllZero
    /\ RoleValue # None
    /\ "A" \in FillLabels(last)
    /\ Markers(last) = <<>>

C5_ColorIdentity ==
    /\ \A f \in last.fills :
          /\ f.label \in DOMAIN plots
          /\ f.facecolor = ax_lines[plots[f.label]].color
          /\ f.x = Universe
          /\ f.y1 = zeros
          /\ f.y2 = LastSim.cut_mfs[f.label]
    /\ \A f \in ax_collections :
          \E h \in DOMAIN ax_lines :
              ax_lines[h].label = f.label /\ ax_lines[h].color = f.facecolor

\* Two calls in a row that both drew fills.
C5_Witness ==
    /\ calls = 2
    /\ FillLabels(last) = {"A", "C"}
    /\ prev.fills # {}

(***************************************************************************)
(* C6.  A call draws one curve per term, in insertion order, each pairing  *)
(* the universe with the term's membership curve; a curve is bold exactly  *)
(* when its label is the highlighted term.  A visualizer built from a Term *)
(* shows the terms of the Term's parent variable with that Term bold.      *)
(***************************************************************************)
C6_DisplayCurves ==
    calls >= 1 =>
        LET parent == IF arg.kind = "Term" THEN arg.parent_variable ELSE arg
            cs == Curves(last)
            bold == {i \in DOMAIN cs : cs[i].lw = 3}
        IN  /\ Len(cs) = Len(parent.terms)
            /\ \A i \in DOMAIN cs :
                  /\ cs[i].label = parent.terms[i].label
                  /\ cs[i].xs = parent.universe
                  /\ cs[i].ys = parent.terms[i].mf
                  /\ cs[i].lw \in {1, 3}
            /\ arg.kind = "FuzzyVariable" => bold = {}
            /\ arg.kind = "Term" =>
                  bold = {i \in DOMAIN cs : cs[i].label = arg.label}
                  /\ Cardinality(bold) = 1

\* A visualizer built from the Term "B" after a call.
C6_Witness ==
    /\ calls >= 1
    /\ arg.kind = "Term" /\ arg.label = "B"
    /\ Curves(last)[2].lw = 3

(***************************************************************************)
(* C7.  As claimed: a call with the inputs of the call before it adds      *)
(* nothing to and changes nothing in what the visualizer holds.            *)
(***************************************************************************)
C7_Original ==
    [][(calls >= 1 /\ last'.sim = last.sim) =>
          (ax_lines' = ax_lines /\ ax_collections' = ax_collections)]_vars

\* C7 as amended: a call with the inputs of the call before it draws the
\* same curves, fills and marker again, as new objects on the same surface,
\* which then holds both drawings.
C7_SameDescriptorsDrawnAgain ==
    (calls >= 2 /\ last.sim = prev.sim) =>
        /\ Descr(last) = Descr(prev)
        /\ LET n == Len(ax_lines)
               m == Len(last.lines)
           IN  /\ n >= 2 * m
               /\ SubSeq(ax_lines, n - m + 1, n) = last.lines
               /\ SubSeq(ax_lines, n - 2 * m + 1, n - m) = prev.lines

\* The same simulation viewed twice, with fills and a marker each time.
C7_Witness ==
    /\ calls = 2
    /\ last.sim = prev.sim
    /\ last.fills # {}
    /\ Len(Markers(last)) = 1

(***************************************************************************)
(* C8.  A call draws at most one marker, and draws it only when a crisp    *)
(* value is available and at least one fill was drawn; otherwise it draws  *)
(* none and raises nothing.  The marker stands at the crisp value and      *)
(* starts at height 0.                                                     *)
(***************************************************************************)
C8_MarkerOnlyWithCrispAndFill ==
    /\ Len(Markers(last)) <= 1
    /\ last.raised = "none"
    /\ (RoleValue = None \/ last.fills = {}) => Markers(last) = <<>>
    /\ \A k \in DOMAIN Markers(last) :
          /\ RoleValue # None
          /\ last.fills # {}
          /\ Markers(last)[k].xs = <<RoleValue[1], RoleValue[1]>>
          /\ Markers(last)[k].ys[1] = 0

\* A call that drew a marker, after a call that had a crisp value and a
\* non-zero aggregate but no fill and drew none.
C8_Witness ==
    /\ calls = 2
    /\ Len(Markers(last)) = 1
    /\ Markers(prev) = <<>>
    /\ prev.sim # None
    /\ prev.fills = {}
    /\ prev.sim[1].output_mf # zeros
    /\ prev.sim[1].output # None

(***************************************************************************)
(* C9.  The marker stands at the value of the variable's role: the input   *)
(* value when the variable has the input role (probed first), else the     *)
(* output value when it has the output role; a variable with neither role  *)
(* gets no marker, and so does every variable viewed without a simulation. *)
(***************************************************************************)
C9_CrispValueByRole ==
    calls >= 1 =>
        /\ \A k \in DOMAIN Markers(last) :
              /\ fuzzy_var.hasInput =>
                    Some(Markers(last)[k].xs[1]) = LastSim.input
              /\ (~ fuzzy_var.hasInput /\ fuzzy_var.hasOutput) =>
                    Some(Markers(last)[k].xs[1]) = LastSim.output
        /\ (~ fuzzy_var.hasInput /\ ~ fuzzy_var.hasOutput) => Markers(last) = <<>>
        /\ (fuzzy_var.hasInput /\ LastSim.input = None) => Markers(last) = <<>>
        /\ last.sim = None => (Markers(last) = <<>> /\ last.fills = {})
        /\ (last.fills # {} /\ ~ AggregateAllZero /\ fuzzy_var.hasInput
              /\ LastSim.input # None) => Len(Markers(last)) = 1
        /\ (last.fills # {} /\ ~ AggregateAllZero /\ ~ fuzzy_var.hasInput
              /\ fuzzy_var.hasOutput /\ LastSim.output # None) =>
                 Len(Markers(last)) = 1

\* A variable with both roles whose marker stands at the input value 2.5
\* although the simulation holds the output value 2.
C9_Witness ==
    /\ calls >= 1
    /\ fuzzy_var.hasInput /\ fuzzy_var.hasOutput
    /\ LastSim.output = Some(4)
    /\ Len(Markers(last)) = 1
    /\ Markers(last)[1].xs[1] = 5

(***************************************************************************)
(* C10.  After k >= 1 calls the cache has exactly one entry per term       *)
(* label, each pointing at the curve the most recent call drew for that    *)
(* label, while the surface holds k curves per term.                       *)
(***************************************************************************)
C10_CacheAndSurface ==
    calls >= 1 =>
        /\ DOMAIN plots = TermLabels(fuzzy_var)
        /\ \A l \in DOMAIN plots :
              /\ plots[l] \in DOMAIN ax_lines
              /\ plots[l] > Len(ax_lines) - Len(last.lines)
              /\ ax_lines[plots[l]].label = l
              /\ Cardinality({h \in DOMAIN ax_lines : ax_lines[h].label = l}) = calls

\* The state after the second call.
C10_Witness ==
    /\ calls >= 2
    /\ Len(ax_lines) >= 2 * Len(Terms)
    /\ plots["A"] > Len(Terms)

====
